---- MODULE Spec2Model ----
(***************************************************************************)
(* A model of opal_server/pubsub.py: the ClientTracker registry of         *)
(* reference-counted client sessions, the per-connection websocket handler *)
(* with its context-local "current client", the subscribe/unsubscribe      *)
(* hooks, the permitted-topics restriction, the introspection endpoint,    *)
(* and the lifecycle of the hub: start, stop, wait_until_done and publish. *)
(*                                                                         *)
(* Python's Optional[T] is modelled as a set with at most one element:     *)
(* {} is None and {v} is the value v.  A dict is a function whose DOMAIN   *)
(* is its set of keys.  ClientInfo objects live in a heap and are referred *)
(* to by object id, so that aliasing between the registry, the context     *)
(* variable and the locals of a handler is explicit.                       *)
(***************************************************************************)
EXTENDS Integers, Sequences, FiniteSets, TLC

----------------------------------------------------------------------------
(* Bounds of the model *)

\* number of message loops that may end by an exception or a cancellation
MaxFailures == 1
\* longest topic list a client sends in one request
MaxTopicListLen == 2
\* number of calls of broadcaster.connect() that fail
MaxAttempts == 2
\* number of calls of stop()
MaxStops == 2

----------------------------------------------------------------------------
(* Program constants *)

OPAL_CLIENT_INFO_PARAM_PREFIX == "__opal_"
OPAL_CLIENT_INFO_CLIENT_ID == OPAL_CLIENT_INFO_PARAM_PREFIX \o "client_id"
\* the magic topic of fastapi_websocket_pubsub, a plain string
ALL_TOPICS == "__EventNotifier_ALL_TOPICS__"

----------------------------------------------------------------------------
(* Input domains *)

\* the connection-handling tasks that may be alive at the same time
Conns == {1, 2}
\* the task of the broadcaster's own subscriber: it never sets current_client
Backbone == 0
Tasks == Conns \cup {Backbone}

None == {}
Some(v) == {v}
TheValue(opt) == CHOOSE v \in opt : TRUE

Range(f) == {f[i] : i \in DOMAIN f}

\* websocket.client: None, or an address with a host and a port
Peers == {None, Some([host |-> "h1", port |-> 1])}

EmptyDict == [k \in {} |-> ""]
\* websocket.query_params
QueryParamsSet ==
    { EmptyDict, (OPAL_CLIENT_INFO_CLIENT_ID :> "c1") }

RegularTopics == {"x", "z"}
TopicNames == RegularTopics \cup {ALL_TOPICS}

\* the characters of a string, as Python's set(str) yields them
Chars(s) ==
    CASE s = ALL_TOPICS ->
           {"_", "E", "v", "e", "n", "t", "N", "o", "i", "f", "r",
            "A", "L", "T", "O", "P", "I", "C", "S"}
      [] s = "x" -> {"x"}
      [] s = "z" -> {"z"}

\* Union[TopicList, ALL_TOPICS]: a list of topics, or the bare magic topic
TopicLists ==
    UNION {[1 .. n -> TopicNames] : n \in 0 .. MaxTopicListLen}
Requests ==
    {[kind |-> "list", items |-> l, value |-> ""] : l \in TopicLists}
      \cup {[kind |-> "str", items |-> <<>>, value |-> ALL_TOPICS]}
\* the requests the connections of the model send, and the topics of the
\* broadcaster's own subscriptions
ConnRequests ==
    {[kind |-> "list", items |-> l, value |-> ""] :
        l \in {<<>>, <<"x">>, <<"z">>, <<"x", "z">>}}
BackboneRequests ==
    {r \in Requests : r.kind = "str" \/ r.items = <<"x">>}

\* the permitted_topics a token may carry
GrantedSets == {{"x"}, {"x", ALL_TOPICS}, Chars(ALL_TOPICS)}
\* the claims of a verified token: a dict with or without "permitted_topics"
ClaimsSet == {EmptyDict} \cup {("permitted_topics" :> g) : g \in GrantedSets}
\* the claims the connections of the model present: topic x is permitted
ConnClaimsSet == {("permitted_topics" :> {"x"})}
\* channel.context: main_loop is given claims=claims
Contexts == {EmptyDict} \cup {("claims" :> c) : c \in ClaimsSet}


\* time.time(): the wall clock, which is not monotonic
Times == {0, 1}

\* uuid4().hex
Uuids == {"0f3a"}

\* object ids of ClientInfo instances
ObjIds == 1 .. (Cardinality(Conns) + MaxFailures + 1)

----------------------------------------------------------------------------
(* State *)

VARIABLES
    heap,            \* the ClientInfo objects: object id -> fields
    clients_by_ids,  \* ClientTracker._clients_by_ids: client_id -> object id
    pc,              \* where each connection handler is
    ctx,             \* current_client, one value per task context
    loc,             \* the locals of each handler: client_id, client_info, claims
    subs,            \* the notifier's subscriptions of each connection
    failures,        \* message loops that ended abnormally so far
    lastCheck,       \* the last call of _verify_permitted_topics and its outcome
    raised,          \* whether the last subscribe/unsubscribe hook raised
    last,            \* the notifier event that was the last step, and its task
    hub,             \* the PubSub object, its broadcaster and its tasks
    snapshot         \* the dict a caller of clients() holds, if any

vars == <<heap, clients_by_ids, pc, ctx, loc, subs, failures, lastCheck, raised, last,
          hub, snapshot>>

----------------------------------------------------------------------------
(* ClientInfo and ClientTracker *)

\* a fresh ClientInfo: subscribed_topics and refcount take their defaults
ClientInfo(client_id, source_host, source_port, connect_time, query_params) ==
    [ client_id         |-> client_id,
      source_host       |-> source_host,
      source_port       |-> source_port,
      connect_time      |-> connect_time,
      subscribed_topics |-> {},
      refcount          |-> 0,
      query_params      |-> query_params ]

\* dict.pop(key, None) and dict.pop(key): the dict without the key
DictWithout(d, key) == [k \in (DOMAIN d) \ {key} |-> d[k]]
\* d[key] = value
DictWith(d, key, value) == (key :> value) @@ d

\* the client_id new_client chooses: the explicit parameter, else host and
\* port, else the random token
ClientIdOf(uuid, source_host, source_port, query_params) ==
    IF OPAL_CLIENT_INFO_CLIENT_ID \in DOMAIN query_params
      THEN query_params[OPAL_CLIENT_INFO_CLIENT_ID]
      ELSE IF source_host # None /\ source_port # None
             THEN "host:" \o TheValue(source_host) \o ":"
                    \o ToString(TheValue(source_port))
             ELSE "opal:" \o uuid

\* an object id no reference holds
FreshObj(hp) == CHOOSE o \in ObjIds : o \notin DOMAIN hp /\
                    \A p \in ObjIds : p \notin DOMAIN hp => o <= p

\* a variant that stamps connect_time again when it reuses a record
NewClientEnterRestamp(reg, hp, client_id, source_host, source_port, query_params, time) ==
    LET popped == IF client_id \in DOMAIN reg THEN Some(reg[client_id]) ELSE None
        obj    == IF popped = None THEN FreshObj(hp) ELSE TheValue(popped)
        hp1    == IF popped = None
                    THEN DictWith(hp, obj,
                           ClientInfo(client_id, source_host, source_port,
                                      time, query_params))
                    ELSE [hp EXCEPT ![obj].connect_time = time]
        hp2    == [hp1 EXCEPT ![obj].refcount = @ + 1]
    IN  [reg |-> DictWith(DictWithout(reg, client_id), client_id, obj),
         heap |-> hp2, obj |-> obj]

\* new_client up to its yield, under _client_lock: the registry, the heap and
\* the object yielded
NewClientEnter(reg, hp, client_id, source_host, source_port, query_params, time) ==
    LET popped == IF client_id \in DOMAIN reg THEN Some(reg[client_id]) ELSE None
        obj    == IF popped = None THEN FreshObj(hp) ELSE TheValue(popped)
        hp1    == IF popped = None
                    THEN DictWith(hp, obj,
                           ClientInfo(client_id, source_host, source_port,
                                      time, query_params))
                    ELSE hp
        hp2    == [hp1 EXCEPT ![obj].refcount = @ + 1]
    IN  [reg |-> DictWith(DictWithout(reg, client_id), client_id, obj),
         heap |-> hp2, obj |-> obj]

\* new_client after its yield, under _client_lock
NewClientExit(reg, hp, client_id) ==
    LET obj  == reg[client_id]
        reg1 == DictWithout(reg, client_id)
        hp1  == [hp EXCEPT ![obj].refcount = @ - 1]
    IN  [reg |-> IF hp1[obj].refcount >= 1 THEN DictWith(reg1, client_id, obj)
                 ELSE reg1,
         heap |-> hp1]

\* leaving the with block of a @contextmanager generator: a normal exit resumes
\* the generator after its yield; an exception or a cancellation is thrown into
\* the generator at the yield, which new_client does not guard with try/finally,
\* so the code after the yield does not run
ContextManagerExit(outcome, reg, hp, client_id) ==
    IF outcome = "return"
      THEN NewClientExit(reg, hp, client_id)
      ELSE [reg |-> reg, heap |-> hp]

\* ClientTracker.clients(): a new dict with the same keys and the same objects
Clients(reg) == [k \in DOMAIN reg |-> reg[k]]

----------------------------------------------------------------------------
(* current_client and the subscribe / unsubscribe hooks *)

\* a variant with one process-wide variable instead of a context variable: the
\* value the first connection task that set one has set
CurrentClientShared(cx, task) ==
    LET setters == {u \in DOMAIN cx : cx[u] # None}
    IN  IF setters = {} THEN None
        ELSE cx[CHOOSE u \in setters : \A w \in setters : u <= w]

\* current_client.get(None) in the context of a task
CurrentClientGet(cx, task) == cx[task]

\* topics = [topics] unless topics is a list
AsList(topics) == IF topics.kind # "list" THEN <<topics.value>> ELSE topics.items

\* a variant without the guard: None has no subscribed_topics, so it raises
OnSubscribeUnguarded(hp, cx, task, topics) ==
    LET client_info == CurrentClientGet(cx, task)
    IN  IF client_info # None
          THEN [heap |-> [hp EXCEPT ![TheValue(client_info)].subscribed_topics =
                                      @ \cup Range(AsList(topics))],
                raised |-> FALSE]
          ELSE [heap |-> hp, raised |-> TRUE]

\* ClientTracker.on_subscribe in the context of a task: the heap afterwards,
\* and whether the hook raised
OnSubscribe(hp, cx, task, topics) ==
    LET client_info == CurrentClientGet(cx, task)
    IN  IF client_info # None
          THEN [heap |-> [hp EXCEPT ![TheValue(client_info)].subscribed_topics =
                                      @ \cup Range(AsList(topics))],
                raised |-> FALSE]
          ELSE [heap |-> hp, raised |-> FALSE]

\* ClientTracker.on_unsubscribe in the context of a task: the heap afterwards,
\* and whether the hook raised
OnUnsubscribe(hp, cx, task, topics) ==
    LET client_info == CurrentClientGet(cx, task)
    IN  IF client_info # None
          THEN [heap |-> [hp EXCEPT ![TheValue(client_info)].subscribed_topics =
                                      @ \ Range(AsList(topics))],
                raised |-> FALSE]
          ELSE [heap |-> hp, raised |-> FALSE]

----------------------------------------------------------------------------
(* PubSub._verify_permitted_topics *)

\* set(topics): the elements of a list, the characters of a string
SetOf(topics) ==
    IF topics.kind = "list" THEN Range(topics.items) ELSE Chars(topics.value)

\* dict.get(key, default)
DictGet(d, key, default) == IF key \in DOMAIN d THEN d[key] ELSE default

\* a variant that builds the Unauthorized but does not raise it
VerifyNoRaise(topics, context) ==
    [ok |-> TRUE, unauthorized_topics |-> {}]

\* a variant that subtracts the wrong way round: granted minus requested
VerifyReversedDifference(topics, context) ==
    IF "permitted_topics" \notin DOMAIN DictGet(context, "claims", EmptyDict)
      THEN [ok |-> TRUE, unauthorized_topics |-> {}]
      ELSE LET unauthorized_topics ==
                 context["claims"]["permitted_topics"] \ SetOf(topics)
           IN  IF unauthorized_topics # {}
                 THEN [ok |-> FALSE, unauthorized_topics |-> unauthorized_topics]
                 ELSE [ok |-> TRUE, unauthorized_topics |-> {}]

\* a variant without the opt-in: claims without permitted_topics permit nothing
VerifyNoOptIn(topics, context) ==
    LET unauthorized_topics ==
          SetOf(topics) \ DictGet(DictGet(context, "claims", EmptyDict),
                                  "permitted_topics", {})
    IN  IF unauthorized_topics # {}
          THEN [ok |-> FALSE, unauthorized_topics |-> unauthorized_topics]
          ELSE [ok |-> TRUE, unauthorized_topics |-> {}]

\* the outcome of _verify_permitted_topics(topics, channel): ok when it
\* returns, else the Unauthorized it raises with the topics it names
VerifyPermittedTopics(topics, context) ==
    IF "permitted_topics" \notin DOMAIN DictGet(context, "claims", EmptyDict)
      THEN [ok |-> TRUE, unauthorized_topics |-> {}]
      ELSE LET unauthorized_topics ==
                 SetOf(topics) \ context["claims"]["permitted_topics"]
           IN  IF unauthorized_topics # {}
                 THEN [ok |-> FALSE, unauthorized_topics |-> unauthorized_topics]
                 ELSE [ok |-> TRUE, unauthorized_topics |-> {}]

----------------------------------------------------------------------------
(* PubSub.__init__ *)

\* what broadcaster_uri, BROADCAST_KEEPALIVE_INTERVAL and disconnect_callback
\* may be when the hub is constructed
BroadcasterUris == {None, Some("postgres://backbone")}
KeepaliveIntervals == {0, 3600}
DisconnectCallbacks == {None, Some("disconnect_callback")}

\* the attribute broadcast_keepalive is None, a PeriodicPublisher, or was
\* never assigned; reading an attribute that was never assigned raises
\* AttributeError
Unassigned == "<unassigned>"

\* the arguments, the fields of self after __init__, followed by the state of the objects
\* and tasks they refer to:
\*   connection         the EventBroadcaster's link to the backbone
\*   keepalive_running  whether the PeriodicPublisher's task runs
\*   watcher, cancel_requested, awaited
\*                      the task wait_until_done() of start(), whether its
\*                      cancellation was requested, the callbacks it awaited
\*   start, attempts    where start() is, and the connect attempts that failed
\*   stop, stops        where stop() is, and the calls of stop() so far
\*   outstanding        the publishes that were pending when stop() was called
\*   items, gathered    the awaitables stop() gathers, and those that are done
\*   join, joining      where TasksPool.join() is, and the tasks it waits for
\*   closes             the calls of broadcaster.close() so far
\*   submitted, finished, failed
\*                      the publishes whose publish() returned, those whose
\*                      task is done, and those whose task raised
PubSubInit(broadcaster_uri, interval, disconnect_callback) ==
    [broadcaster_uri |-> broadcaster_uri,
     interval |-> interval,
     broadcaster |-> IF broadcaster_uri # None THEN Some("EventBroadcaster")
                     ELSE None,
     broadcast_keepalive |->
         IF broadcaster_uri # None
           THEN IF interval > 0 THEN "PeriodicPublisher" ELSE Unassigned
           ELSE "None",
     wait_for_broadcaster_closed |-> None,
     disconnect_callbacks |-> disconnect_callback,
     publish_pool |-> {},
     connection |-> "new",
     keepalive_running |-> FALSE,
     watcher |-> "none",
     cancel_requested |-> FALSE,
     awaited |-> {},
     start |-> "idle",
     attempts |-> 0,
     stop |-> "idle",
     stops |-> 0,
     outstanding |-> {},
     items |-> {},
     gathered |-> {},
     join |-> "idle",
     joining |-> {},
     closes |-> 0,
     submitted |-> {},
     finished |-> {},
     failed |-> {}]

\* the hub of the connection handlers: no backbone, no disconnect callback
LocalHub == PubSubInit(None, 0, None)

----------------------------------------------------------------------------
(* The connection handler websocket_rpc_endpoint, one task per connection *)

\* the last step was no event of the notifier
NoEvent == [kind |-> "none", task |-> Backbone]

NoLocals == [client_id |-> "", client_info |-> None, claims |-> None]

\* the objects some reference still reaches; the others are collected
Collect(hp, reg, cx, lc) ==
    LET live == Range(reg) \cup UNION Range(cx)
                  \cup UNION {lc[t].client_info : t \in DOMAIN lc}
    IN  [o \in (DOMAIN hp) \cap live |-> hp[o]]

SourceHost(peer) == IF peer = None THEN None ELSE Some(TheValue(peer).host)
SourcePort(peer) == IF peer = None THEN None ELSE Some(TheValue(peer).port)

Init ==
    /\ heap = [o \in {} |-> 0]
    /\ clients_by_ids = [k \in {} |-> 0]
    /\ pc = [t \in Conns |-> "idle"]
    /\ ctx = [t \in Tasks |-> None]
    /\ loc = [t \in Conns |-> NoLocals]
    /\ subs = [t \in Conns |-> {}]
    /\ failures = 0
    /\ lastCheck = None
    /\ raised = FALSE
    /\ last = NoEvent
    /\ hub = LocalHub
    /\ snapshot = None

\* a variant of the handler without the test of claims: the session of the
\* unauthenticated connection is registered before the handler ends
RejectRegisters(t) ==
    /\ pc[t] = "idle"
    /\ \A u \in Conns : u < t => pc[u] # "idle"
    /\ \E uuid \in Uuids, time \in Times :
         LET r == NewClientEnter(clients_by_ids, heap,
                                 ClientIdOf(uuid, None, None, EmptyDict),
                                 None, None, EmptyDict, time)
         IN  /\ clients_by_ids' = r.reg
             /\ heap' = r.heap
    /\ pc' = [pc EXCEPT ![t] = "closing"]
    /\ last' = NoEvent
    /\ UNCHANGED <<ctx, loc, subs, failures, lastCheck, raised>>
    /\ UNCHANGED <<hub, snapshot>>

\* the authenticator yielded no claims: the handler returns at once and its
\* finally clause closes the websocket
Reject(t) ==
    /\ pc[t] = "idle"
    /\ \A u \in Conns : u < t => pc[u] # "idle"
    /\ pc' = [pc EXCEPT ![t] = "closing"]
    /\ last' = NoEvent
    /\ UNCHANGED <<heap, clients_by_ids, ctx, loc, subs, failures,
                   lastCheck, raised>>
    /\ UNCHANGED <<hub, snapshot>>

\* the handler of an authenticated connection, up to the await of main_loop:
\* new_client is entered and current_client is set
Accept(t, peer, query_params, claims, uuid, time) ==
    /\ pc[t] = "idle"
    \* a new task is named after the first free slot
    /\ \A u \in Conns : u < t => pc[u] # "idle"
    /\ LET client_id == ClientIdOf(uuid, SourceHost(peer), SourcePort(peer),
                                   query_params)
           r == NewClientEnter(clients_by_ids, heap, client_id, SourceHost(peer),
                               SourcePort(peer), query_params, time)
       IN  \* uuid4() does not repeat a token
           /\ (client_id = "opal:" \o uuid) => client_id \notin DOMAIN clients_by_ids
           /\ clients_by_ids' = r.reg
           /\ heap' = r.heap
           /\ loc' = [loc EXCEPT ![t] = [client_id |-> client_id,
                                         client_info |-> Some(r.obj),
                                         claims |-> Some(claims)]]
           /\ ctx' = [ctx EXCEPT ![t] = Some(r.obj)]
    /\ pc' = [pc EXCEPT ![t] = "loop"]
    /\ last' = NoEvent
    /\ UNCHANGED <<subs, failures, lastCheck, raised>>
    /\ UNCHANGED <<hub, snapshot>>

\* channel.context of a connection: main_loop is given claims=claims
ChannelContext(t) == ("claims" :> TheValue(loc[t].claims))

\* a subscribe request of the connection reaches the notifier: the channel
\* restriction runs first; only when it returns is the subscription made and
\* the subscribe hook called, in the connection's task
RpcSubscribe(t, topics) ==
    /\ pc[t] = "loop"
    /\ LET v == VerifyPermittedTopics(topics, ChannelContext(t))
           h == OnSubscribe(heap, ctx, t, topics)
       IN  IF v.ok
             THEN /\ subs' = [subs EXCEPT ![t] = @ \cup Range(AsList(topics))]
                  /\ heap' = h.heap
                  /\ raised' = h.raised
             ELSE UNCHANGED <<subs, heap, raised>>
    /\ last' = IF VerifyPermittedTopics(topics, ChannelContext(t)).ok
                 THEN [kind |-> "event", task |-> t]
                 ELSE [kind |-> "Unauthorized", task |-> t]
    /\ UNCHANGED <<clients_by_ids, pc, ctx, loc, failures, lastCheck>>
    /\ UNCHANGED <<hub, snapshot>>

\* the notifier drops subscriptions of the connection and calls the
\* unsubscribe hook, in the connection's task
RpcUnsubscribe(t, topics) ==
    /\ pc[t] = "loop"
    /\ topics.kind = "list"
    /\ Range(topics.items) # {}
    /\ Range(topics.items) \subseteq subs[t]
    /\ LET h == OnUnsubscribe(heap, ctx, t, topics)
       IN  /\ heap' = h.heap
           /\ raised' = h.raised
    /\ subs' = [subs EXCEPT ![t] = @ \ Range(topics.items)]
    /\ last' = [kind |-> "event", task |-> t]
    /\ UNCHANGED <<clients_by_ids, pc, ctx, loc, failures, lastCheck>>
    /\ UNCHANGED <<hub, snapshot>>

\* the hooks run for the broadcaster's own subscriber, outside any connection
BackboneSubscribe(topics) ==
    /\ LET h == OnSubscribe(heap, ctx, Backbone, topics)
       IN  /\ heap' = h.heap
           /\ raised' = h.raised
    /\ last' = [kind |-> "event", task |-> Backbone]
    /\ UNCHANGED <<clients_by_ids, pc, ctx, loc, subs, failures, lastCheck>>
    /\ UNCHANGED <<hub, snapshot>>

BackboneUnsubscribe(topics) ==
    /\ LET h == OnUnsubscribe(heap, ctx, Backbone, topics)
       IN  /\ heap' = h.heap
           /\ raised' = h.raised
    /\ last' = [kind |-> "event", task |-> Backbone]
    /\ UNCHANGED <<clients_by_ids, pc, ctx, loc, subs, failures, lastCheck>>
    /\ UNCHANGED <<hub, snapshot>>

Outcomes == {"return", "error", "cancel"}

\* main_loop ends, by returning, by raising or by being cancelled: the inner
\* finally resets current_client, the with block is left, and the handler
\* reaches the await of websocket.close() in the outer finally
LoopEnd(t, outcome) ==
    /\ pc[t] = "loop"
    /\ outcome # "return" => failures < MaxFailures
    /\ failures' = IF outcome # "return" THEN failures + 1 ELSE failures
    /\ LET r == ContextManagerExit(outcome, clients_by_ids, heap, loc[t].client_id)
       IN  /\ clients_by_ids' = r.reg
           /\ ctx' = [ctx EXCEPT ![t] = None]
           /\ loc' = [loc EXCEPT ![t] = NoLocals]
           /\ heap' = Collect(r.heap, clients_by_ids', ctx', loc')
    /\ subs' = [subs EXCEPT ![t] = {}]
    /\ pc' = [pc EXCEPT ![t] = "closing"]
    /\ last' = NoEvent
    /\ UNCHANGED <<lastCheck, raised>>
    /\ UNCHANGED <<hub, snapshot>>

\* websocket.close() completes; the task slot serves the next connection
Close(t) ==
    /\ pc[t] = "closing"
    /\ pc' = [pc EXCEPT ![t] = "idle"]
    /\ last' = NoEvent
    /\ UNCHANGED <<heap, clients_by_ids, ctx, loc, subs, failures,
                   lastCheck, raised>>
    /\ UNCHANGED <<hub, snapshot>>

Next ==
    \/ \E t \in Conns : Reject(t)
    \/ \E t \in Conns, peer \in Peers, query_params \in QueryParamsSet,
          claims \in ConnClaimsSet, uuid \in Uuids, time \in Times :
         Accept(t, peer, query_params, claims, uuid, time)
    \/ \E t \in Conns, topics \in ConnRequests : RpcSubscribe(t, topics)
    \/ \E t \in Conns, topics \in ConnRequests : RpcUnsubscribe(t, topics)
    \/ \E topics \in BackboneRequests : BackboneSubscribe(topics)
    \/ \E topics \in BackboneRequests : BackboneUnsubscribe(topics)
    \/ \E t \in Conns, outcome \in Outcomes : LoopEnd(t, outcome)
    \/ \E t \in Conns : Close(t)

Spec == Init /\ [][Next]_vars

----------------------------------------------------------------------------
(* _verify_permitted_topics alone, on every request and every context *)

InitVerify ==
    /\ heap = [o \in {} |-> 0]
    /\ clients_by_ids = [k \in {} |-> 0]
    /\ pc = [t \in Conns |-> "idle"]
    /\ ctx = [t \in Tasks |-> None]
    /\ loc = [t \in Conns |-> NoLocals]
    /\ subs = [t \in Conns |-> {}]
    /\ failures = 0
    /\ raised = FALSE
    /\ last = NoEvent
    /\ hub = LocalHub
    /\ snapshot = None
    /\ \E topics \in Requests, context \in Contexts :
         lastCheck = Some([topics |-> topics, context |-> context, done |-> FALSE,
                           result |-> [ok |-> TRUE, unauthorized_topics |-> {}]])

Verify ==
    /\ lastCheck # None
    /\ ~TheValue(lastCheck).done
    /\ LET c == TheValue(lastCheck)
       IN  lastCheck' = Some([c EXCEPT !.done = TRUE,
                                      !.result = VerifyPermittedTopics(c.topics, c.context)])
    /\ UNCHANGED <<heap, clients_by_ids, pc, ctx, loc, subs, failures, raised, last>>
    /\ UNCHANGED <<hub, snapshot>>

NextVerify == Verify

SpecVerify == InitVerify /\ [][NextVerify]_vars

----------------------------------------------------------------------------
(* The introspection endpoint client_info() and a caller of clients() *)

\* the ClientInfo objects the caller's dict refers to
HeldObjects == IF snapshot = None THEN {} ELSE Range(TheValue(snapshot))

InitIntrospect == Init

\* client_info(): the caller receives the dict clients() built
ClientInfoEndpoint ==
    /\ snapshot = None
    /\ snapshot' = Some(Clients(clients_by_ids))
    /\ last' = NoEvent
    /\ UNCHANGED <<heap, clients_by_ids, pc, ctx, loc, subs, failures,
                   lastCheck, raised, hub>>

\* the caller removes an entry of the dict it received
CallerPops(key) ==
    /\ snapshot # None
    /\ key \in DOMAIN TheValue(snapshot)
    /\ snapshot' = Some(DictWithout(TheValue(snapshot), key))
    /\ last' = NoEvent
    /\ UNCHANGED <<heap, clients_by_ids, pc, ctx, loc, subs, failures,
                   lastCheck, raised, hub>>

\* the caller adds a topic to subscribed_topics of a ClientInfo of its dict
CallerAddsTopic(key, topic) ==
    /\ snapshot # None
    /\ key \in DOMAIN TheValue(snapshot)
    /\ LET obj == TheValue(snapshot)[key]
       IN  /\ topic \notin heap[obj].subscribed_topics
           /\ heap' = [heap EXCEPT ![obj].subscribed_topics = @ \cup {topic}]
    /\ last' = NoEvent
    /\ UNCHANGED <<clients_by_ids, pc, ctx, loc, subs, failures,
                   lastCheck, raised, hub, snapshot>>

\* the caller lets go of the dict
CallerDrops ==
    /\ snapshot # None
    /\ snapshot' = None
    /\ last' = NoEvent
    /\ UNCHANGED <<heap, clients_by_ids, pc, ctx, loc, subs, failures,
                   lastCheck, raised, hub>>

\* connections come and go meanwhile; the caller is followed while the
\* objects of its dict are those of sessions still referred to elsewhere
NextIntrospect ==
    \/ \E t \in Conns, peer \in Peers, query_params \in QueryParamsSet,
          claims \in ConnClaimsSet, uuid \in Uuids, time \in Times :
         Accept(t, peer, query_params, claims, uuid, time)
    \/ \E t \in Conns, outcome \in Outcomes :
         LoopEnd(t, outcome) /\ HeldObjects \subseteq DOMAIN heap'
    \/ \E t \in Conns : Close(t)
    \/ ClientInfoEndpoint
    \/ \E key \in UNION {DOMAIN d : d \in snapshot} : CallerPops(key)
    \/ \E key \in UNION {DOMAIN d : d \in snapshot}, topic \in RegularTopics :
         CallerAddsTopic(key, topic)
    \/ CallerDrops

SpecIntrospect == InitIntrospect /\ [][NextIntrospect]_vars

----------------------------------------------------------------------------
(* PubSub.start, stop, wait_until_done, publish_sync and publish *)

\* the publishes the callers submit
Pubs == {"p1", "p2"}

\* how an awaited call ends
Results == {"return", "error"}

\* start(), from the test of broadcast_keepalive: the attribute is read, and
\* a PeriodicPublisher is started
StartKeepalive(h) ==
    IF h.broadcast_keepalive = Unassigned
      THEN [h EXCEPT !.start = "raised"]
      ELSE IF h.broadcast_keepalive = "None"
             THEN [h EXCEPT !.start = "returned"]
             ELSE [h EXCEPT !.keepalive_running = TRUE, !.start = "returned"]

\* start() up to the await of the retried connect
StartEnter(h) ==
    IF h.broadcaster # None
      THEN [h EXCEPT !.start = "connecting"]
      ELSE StartKeepalive(h)

\* start() once connect() returned: the watcher task is created
StartConnected(h) ==
    StartKeepalive([h EXCEPT !.connection = "connected",
                             !.wait_for_broadcaster_closed = Some("task"),
                             !.watcher = "created"])

\* what stop() hands to gather
StopTasks(h) ==
    {"join"}
      \cup (IF h.broadcast_keepalive # "None" THEN {"keepalive"} ELSE {})
      \cup (IF h.broadcaster # None THEN {"watcher"} ELSE {})

\* stop() up to the await of gather: reading broadcast_keepalive raises
\* AttributeError when it was never assigned, and so does cancel() on the
\* None that _wait_for_broadcaster_closed holds until start() has connected;
\* cancel() on a task that is done changes nothing
StopEnter(h) ==
    LET h0 == [h EXCEPT !.stops = @ + 1, !.outstanding = h.publish_pool,
                        !.items = {}, !.gathered = {},
                        !.join = "idle", !.joining = {}]
    IN  IF h.broadcast_keepalive = Unassigned
          THEN [h0 EXCEPT !.stop = "raised"]
          ELSE IF h.broadcaster # None /\ h.wait_for_broadcaster_closed = None
                 THEN [h0 EXCEPT !.stop = "raised"]
                 ELSE [h0 EXCEPT !.stop = "gather",
                                 !.items = StopTasks(h),
                                 !.cancel_requested =
                                     h.broadcaster # None
                                       /\ h.watcher \notin {"done", "cancelled"}]

\* a variant of gather that returns with the first awaitable that is done
GatherFirstDone(h) == h.gathered # {}

\* gather returns when every awaitable it was given is done
GatherDone(h) == h.gathered = h.items

\* stop() once gather returned, up to the await of broadcaster.close()
StopGathered(h) ==
    IF h.broadcaster # None
      THEN [h EXCEPT !.stop = "closing", !.closes = @ + 1]
      ELSE [h EXCEPT !.stop = "returned", !.broadcaster = None]

\* stop() once broadcaster.close() ended: an exception of close() leaves
\* stop() before the reference is cleared
StopClosed(h, result) ==
    IF result = "return"
      THEN [h EXCEPT !.stop = "returned", !.broadcaster = None,
                     !.connection = "closed"]
      ELSE [h EXCEPT !.stop = "raised"]

\* where wait_until_done() is once the broadcaster reported its closure: it
\* awaits the disconnect callbacks one after the other
AwaitCallbacks(h) ==
    IF h.disconnect_callbacks \subseteq h.awaited THEN "done"
    ELSE "await_callback"

\* a variant of wait_until_done() that does not wait for the broadcaster
WaitUntilDoneCallbacksOnly(h) == [h EXCEPT !.watcher = AwaitCallbacks(h)]

\* wait_until_done() up to its first await
WaitUntilDoneEnter(h) ==
    IF h.broadcaster # None
      THEN [h EXCEPT !.watcher = "await_broadcaster"]
      ELSE [h EXCEPT !.watcher = AwaitCallbacks(h)]

\* a variant of publish() that awaits publish_sync itself
PublishAwaited(h, p) ==
    [h EXCEPT !.submitted = @ \cup {p}, !.finished = @ \cup {p}]

\* publish(): the coroutine publish_sync(topics, data) is handed to the pool
\* and the call returns
PublishCall(h, p) ==
    [h EXCEPT !.submitted = @ \cup {p}, !.publish_pool = @ \cup {p}]

\* the hub is constructed
InitLifecycle ==
    /\ heap = [o \in {} |-> 0]
    /\ clients_by_ids = [k \in {} |-> 0]
    /\ pc = [t \in Conns |-> "idle"]
    /\ ctx = [t \in Tasks |-> None]
    /\ loc = [t \in Conns |-> NoLocals]
    /\ subs = [t \in Conns |-> {}]
    /\ failures = 0
    /\ lastCheck = None
    /\ raised = FALSE
    /\ last = NoEvent
    /\ snapshot = None
    /\ \E broadcaster_uri \in BroadcasterUris, interval \in KeepaliveIntervals,
          disconnect_callback \in DisconnectCallbacks :
         hub = PubSubInit(broadcaster_uri, interval, disconnect_callback)

\* what the steps of the hub leave alone
Handlers == <<heap, clients_by_ids, pc, ctx, loc, subs, failures, lastCheck,
              raised, last, snapshot>>

Start ==
    /\ hub.start = "idle"
    /\ hub' = StartEnter(hub)
    /\ UNCHANGED Handlers

\* broadcaster.connect() raises: retry waits and calls it again, without end
ConnectFails ==
    /\ hub.start = "connecting"
    /\ hub.attempts < MaxAttempts
    /\ hub' = [hub EXCEPT !.attempts = @ + 1]
    /\ UNCHANGED Handlers

ConnectSucceeds ==
    /\ hub.start = "connecting"
    /\ hub' = StartConnected(hub)
    /\ UNCHANGED Handlers

\* the task of wait_until_done() runs for the first time
WatcherStarts ==
    /\ hub.watcher = "created"
    /\ ~hub.cancel_requested
    /\ hub' = WaitUntilDoneEnter(hub)
    /\ UNCHANGED Handlers

\* the backbone ends the connection
BackboneCloses ==
    /\ hub.connection = "connected"
    /\ hub' = [hub EXCEPT !.connection = "closed"]
    /\ UNCHANGED Handlers

\* broadcaster.wait_until_done() returns in the watcher
WatcherResumes ==
    /\ hub.watcher = "await_broadcaster"
    /\ ~hub.cancel_requested
    /\ hub.connection = "closed"
    /\ hub' = [hub EXCEPT !.watcher = AwaitCallbacks(hub)]
    /\ UNCHANGED Handlers

\* a disconnect callback the watcher awaits ends
CallbackEnds(callback) ==
    /\ hub.watcher = "await_callback"
    /\ ~hub.cancel_requested
    /\ callback \notin hub.awaited
    /\ LET h == [hub EXCEPT !.awaited = @ \cup {callback}]
       IN  hub' = [h EXCEPT !.watcher = AwaitCallbacks(h)]
    /\ UNCHANGED Handlers

\* the cancellation stop() requested reaches the watcher
WatcherCancelled ==
    /\ hub.cancel_requested
    /\ hub.watcher \in {"created", "await_broadcaster", "await_callback"}
    /\ hub' = [hub EXCEPT !.watcher = "cancelled", !.cancel_requested = FALSE]
    /\ UNCHANGED Handlers

Stop ==
    /\ hub.stop \in {"idle", "returned", "raised"}
    /\ hub.stops < MaxStops
    /\ hub' = StopEnter(hub)
    /\ UNCHANGED Handlers

\* TasksPool.join() starts to wait for the tasks the pool holds
JoinBegins ==
    /\ hub.stop = "gather"
    /\ hub.join = "idle"
    /\ hub' = [hub EXCEPT !.join = "running", !.joining = hub.publish_pool]
    /\ UNCHANGED Handlers

\* the tasks join() waits for are done; whether they raised is not looked at
JoinEnds ==
    /\ hub.stop = "gather"
    /\ hub.join = "running"
    /\ hub.joining \cap hub.publish_pool = {}
    /\ hub' = [hub EXCEPT !.join = "done", !.gathered = @ \cup {"join"}]
    /\ UNCHANGED Handlers

\* broadcast_keepalive.stop() ends; gather keeps its exception as a result
KeepaliveStops(result) ==
    /\ hub.stop = "gather"
    /\ "keepalive" \in hub.items \ hub.gathered
    /\ hub' = [hub EXCEPT !.gathered = @ \cup {"keepalive"},
                          !.keepalive_running =
                              IF result = "return" THEN FALSE ELSE @]
    /\ UNCHANGED Handlers

\* the watcher is done, by itself or by its cancellation; gather keeps the
\* CancelledError as a result
WatcherJoined ==
    /\ hub.stop = "gather"
    /\ "watcher" \in hub.items \ hub.gathered
    /\ hub.watcher \in {"done", "cancelled"}
    /\ hub' = [hub EXCEPT !.gathered = @ \cup {"watcher"}]
    /\ UNCHANGED Handlers

GatherReturns ==
    /\ hub.stop = "gather"
    /\ GatherDone(hub)
    /\ hub' = StopGathered(hub)
    /\ UNCHANGED Handlers

BroadcasterClose(result) ==
    /\ hub.stop = "closing"
    /\ hub' = StopClosed(hub, result)
    /\ UNCHANGED Handlers

Publish(p) ==
    /\ p \notin hub.submitted
    /\ hub' = PublishCall(hub, p)
    /\ UNCHANGED Handlers

\* the task of publish_sync ends and the pool forgets it
PublishSyncEnds(p, result) ==
    /\ p \in hub.publish_pool
    /\ hub' = [hub EXCEPT !.publish_pool = @ \ {p},
                          !.finished = @ \cup {p},
                          !.failed = IF result = "error" THEN @ \cup {p} ELSE @]
    /\ UNCHANGED Handlers

NextLifecycle ==
    \/ Start
    \/ ConnectFails
    \/ ConnectSucceeds
    \/ WatcherStarts
    \/ BackboneCloses
    \/ WatcherResumes
    \/ \E callback \in hub.disconnect_callbacks : CallbackEnds(callback)
    \/ WatcherCancelled
    \/ Stop
    \/ JoinBegins
    \/ JoinEnds
    \/ \E result \in Results : KeepaliveStops(result)
    \/ WatcherJoined
    \/ GatherReturns
    \/ \E result \in Results : BroadcasterClose(result)
    \/ \E p \in Pubs : Publish(p)
    \/ \E p \in Pubs, result \in Results : PublishSyncEnds(p, result)

SpecLifecycle == InitLifecycle /\ [][NextLifecycle]_vars

----------------------------------------------------------------------------
(* Properties of the registry *)

\* the connections whose new_client scope for an identity is open
OpenScopes(id) == {t \in Conns : pc[t] = "loop" /\ loc[t].client_id = id}

\* every identity the registry or an open scope knows
KnownIds == (DOMAIN clients_by_ids) \cup {loc[t].client_id : t \in {u \in Conns : pc[u] = "loop"}}

\* the identities a client can present in the explicit parameter
ExplicitIds ==
    {q[OPAL_CLIENT_INFO_CLIENT_ID] :
        q \in {qp \in QueryParamsSet : OPAL_CLIENT_INFO_CLIENT_ID \in DOMAIN qp}}

\* C1: an identity is listed by clients() if and only if at least one
\* new_client scope for it is open, and no refcount is negative.
C1_VisibleIffOpen ==
    /\ \A id \in KnownIds :
         (id \in DOMAIN Clients(clients_by_ids)) <=> (OpenScopes(id) # {})
    /\ \A o \in DOMAIN heap : heap[o].refcount >= 0

\* C2: whichever way the message loop ends (return, failure, cancellation), on
\* reaching the close of the transport the session's refcount has been
\* decremented, and the entry removed if the count reached zero.
C2_ReleaseOnEveryExit ==
    [][\A t \in Conns :
         (pc[t] = "loop" /\ pc'[t] = "closing") =>
            LET id  == loc[t].client_id
                old == heap[clients_by_ids[id]].refcount
            IN  IF old = 1
                  THEN id \notin DOMAIN clients_by_ids'
                  ELSE /\ id \in DOMAIN clients_by_ids'
                       /\ heap'[clients_by_ids'[id]].refcount = old - 1]_vars

\* C3: n >= 1 open connections presenting the same explicit identity make
\* exactly one session, whose refcount is n.
C3_OneSessionRefcountN ==
    \A id \in ExplicitIds :
        LET n == Cardinality(OpenScopes(id))
        IN  n >= 1 =>
              /\ id \in DOMAIN clients_by_ids
              /\ Cardinality({o \in DOMAIN heap : heap[o].client_id = id}) = 1
              /\ heap[clients_by_ids[id]].refcount = n

----------------------------------------------------------------------------
(* Properties of _verify_permitted_topics *)

\* the finished call, its claims and its restriction
Checked == lastCheck # None /\ TheValue(lastCheck).done
CheckedClaims ==
    LET c == TheValue(lastCheck).context
    IN  IF "claims" \in DOMAIN c THEN c["claims"] ELSE EmptyDict
Restricted == "permitted_topics" \in DOMAIN CheckedClaims
Granted == CheckedClaims["permitted_topics"]
\* a wildcard request: the bare ALL_TOPICS, or the list holding only it
IsWildcard(topics) ==
    \/ topics.kind = "str" /\ topics.value = ALL_TOPICS
    \/ topics.kind = "list" /\ Range(topics.items) = {ALL_TOPICS}

\* C4: for a topic list, the check succeeds without a restriction; with one
\* it succeeds exactly when every requested topic is granted, and otherwise
\* fails with Unauthorized naming exactly the requested topics not granted.
C4_VerifyPermittedTopics ==
    (Checked /\ TheValue(lastCheck).topics.kind = "list") =>
        LET c == TheValue(lastCheck)
            requested == c.topics.items
            offending == {requested[i] : i \in {j \in DOMAIN requested :
                                                  requested[j] \notin Granted}}
        IN  /\ ~Restricted => c.result.ok
            /\ Restricted =>
                 /\ c.result.ok <=> (\A i \in DOMAIN requested : requested[i] \in Granted)
                 /\ ~c.result.ok => c.result.unauthorized_topics = offending
                 /\ c.result.ok => offending = {}

\* C4 witness: requested [x, z] with granted {x} failed naming {z}
C4_Witness ==
    /\ Checked
    /\ TheValue(lastCheck).topics.kind = "list"
    /\ TheValue(lastCheck).topics.items = <<"x", "z">>
    /\ Restricted /\ Granted = {"x"}
    /\ ~TheValue(lastCheck).result.ok
    /\ TheValue(lastCheck).result.unauthorized_topics = {"z"}

\* C5 as claimed: a wildcard request is allowed without a restriction and fails
\* with Unauthorized whenever a restriction is present, whatever it contains.
C5_WildcardAlwaysRefused ==
    (Checked /\ IsWildcard(TheValue(lastCheck).topics)) =>
        /\ ~Restricted => TheValue(lastCheck).result.ok
        /\ Restricted => ~TheValue(lastCheck).result.ok

\* C5 amended: a wildcard request is allowed without a restriction; with a
\* restriction it is checked like any topic: the list [ALL_TOPICS] fails with
\* Unauthorized unless the restriction itself contains the ALL_TOPICS token,
\* the bare string unless it contains each of its characters.
C5_WildcardCheckedAsTopic ==
    (Checked /\ IsWildcard(TheValue(lastCheck).topics)) =>
        LET c == TheValue(lastCheck)
        IN  /\ ~Restricted => c.result.ok
            /\ (Restricted /\ c.topics.kind = "list") =>
                 (c.result.ok <=> ALL_TOPICS \in Granted)
            /\ (Restricted /\ c.topics.kind = "str") =>
                 (c.result.ok <=> Chars(ALL_TOPICS) \subseteq Granted)
            /\ ~c.result.ok => c.result.unauthorized_topics # {}

\* C5 witness: the list [ALL_TOPICS] passed a restriction that contains the token
C5_Witness ==
    /\ Checked
    /\ TheValue(lastCheck).topics.kind = "list"
    /\ TheValue(lastCheck).topics.items = <<ALL_TOPICS>>
    /\ Restricted /\ ALL_TOPICS \in Granted
    /\ TheValue(lastCheck).result.ok

----------------------------------------------------------------------------
(* Properties of the subscribe / unsubscribe hooks and of attribution *)

\* the session object of an open connection
SessionOf(t) == clients_by_ids[loc[t].client_id]

\* the topics the claims of an open connection permit
GrantedTo(t) ==
    LET claims == TheValue(loc[t].claims)
    IN  IF "permitted_topics" \in DOMAIN claims
          THEN claims["permitted_topics"] ELSE TopicNames

\* C6: a subscribe of a connection adds to its subscriptions and to its
\* session only topics its claims permit; a refused subscribe answers
\* Unauthorized and changes no session, no refcount, no registration and leaves
\* the connection in its message loop.
C6_SubscribeGate ==
    [][/\ last'.kind = "Unauthorized" =>
            /\ heap' = heap
            /\ clients_by_ids' = clients_by_ids
            /\ subs' = subs
            /\ pc' = pc /\ ctx' = ctx
            /\ pc[last'.task] = "loop"
       /\ (last'.kind = "event" /\ last'.task \in Conns) =>
            LET t == last'.task
            IN  /\ (subs'[t] \ subs[t]) \subseteq GrantedTo(t)
                /\ (heap'[SessionOf(t)].subscribed_topics
                      \ heap[SessionOf(t)].subscribed_topics) \subseteq GrantedTo(t)
                /\ heap'[SessionOf(t)].refcount = heap[SessionOf(t)].refcount]_vars

\* C6 witness: a subscribe was just refused while the session holds {x} from an
\* earlier permitted subscribe, its connection still open and registered
C6_Witness ==
    /\ last.kind = "Unauthorized"
    /\ pc[last.task] = "loop"
    /\ loc[last.task].client_id \in DOMAIN clients_by_ids
    /\ heap[SessionOf(last.task)].subscribed_topics = {"x"}
    /\ heap[SessionOf(last.task)].refcount = 1
    /\ subs[last.task] = {"x"}

\* C7: a subscribe or unsubscribe event raised with no attributed connection
\* does not raise and changes no session and no registration.
C7_UnattributedEventIsNoOp ==
    [][(last'.kind = "event" /\ ctx[last'.task] = None) =>
         /\ heap' = heap
         /\ clients_by_ids' = clients_by_ids
         /\ ~raised']_vars

\* C7 witness: the broadcaster's event has just run while a session with a
\* subscribed topic is registered
C7_Witness ==
    /\ last = [kind |-> "event", task |-> Backbone]
    /\ ~raised
    /\ ctx[Backbone] = None
    /\ \E id \in DOMAIN clients_by_ids :
         heap[clients_by_ids[id]].subscribed_topics # {}

\* C8: an event raised in a connection's message loop changes no session but
\* that connection's own; the attributed client of a task in its loop is its
\* own session, and a task outside its loop has none.
C8_AttributionPerTask ==
    [][/\ (last'.kind = "event" /\ last'.task \in Conns) =>
            LET t == last'.task
            IN  /\ pc[t] = "loop"
                /\ DOMAIN heap' = DOMAIN heap
                /\ \A o \in DOMAIN heap : o # SessionOf(t) => heap'[o] = heap[o]
       /\ \A t \in Conns :
            /\ pc'[t] # "loop" => ctx'[t] = None
            /\ pc'[t] = "loop" =>
                 /\ loc'[t].client_id \in DOMAIN clients_by_ids'
                 /\ ctx'[t] = Some(clients_by_ids'[loc'[t].client_id])]_vars

\* C8 witness: two connections under different identities are open; the last
\* step was the subscribe of one to x, and the other's session is still empty
C8_Witness ==
    \E t, u \in Conns :
        /\ pc[t] = "loop" /\ pc[u] = "loop"
        /\ loc[t].client_id # loc[u].client_id
        /\ last = [kind |-> "event", task |-> t]
        /\ heap[SessionOf(t)].subscribed_topics = {"x"}
        /\ subs[t] = {"x"}
        /\ heap[SessionOf(u)].subscribed_topics = {}

\* C9: the session's subscribed_topics holds every topic that a still-open
\* connection of its identity is subscribed to (an unsubscribe or disconnect of
\* one connection removes no topic another open one still has).
C9_KeepsTopicsOfOpenSessions ==
    \A t \in Conns :
        pc[t] = "loop" => subs[t] \subseteq heap[SessionOf(t)].subscribed_topics

\* C10: entering new_client for a registered identity keeps the record and
\* all its fields and adds one to refcount; leaving a scope that is not the
\* last changes nothing but refcount.
C10_FirstWriterWins ==
    [][\A t \in Conns :
         /\ (pc[t] = "idle" /\ pc'[t] = "loop"
               /\ loc'[t].client_id \in DOMAIN clients_by_ids) =>
              LET id == loc'[t].client_id
                  o  == clients_by_ids[id]
              IN  /\ clients_by_ids' = clients_by_ids
                  /\ heap' = [heap EXCEPT ![o].refcount = @ + 1]
         /\ (pc[t] = "loop" /\ pc'[t] = "closing"
               /\ heap[SessionOf(t)].refcount > 1) =>
              LET o == SessionOf(t)
              IN  /\ clients_by_ids' = clients_by_ids
                  /\ \/ heap' = [heap EXCEPT ![o].refcount = @ - 1]
                     \/ failures' # failures /\ heap' = heap]_vars

\* C10 witness: an identity registered at time 0 from no peer address has been
\* entered a second time and its record is the first one's
C10_Witness ==
    \E id \in DOMAIN clients_by_ids :
        /\ Cardinality(OpenScopes(id)) = 2
        /\ heap[clients_by_ids[id]].refcount = 2
        /\ heap[clients_by_ids[id]].connect_time = 0
        /\ heap[clients_by_ids[id]].source_host = None
        /\ heap[clients_by_ids[id]].subscribed_topics = {"x"}

----------------------------------------------------------------------------
(* Properties of clients() *)

\* what the registry holds and what a call of clients() shows: every
\* identity with the fields of its session
RegistryView == [k \in DOMAIN clients_by_ids |-> heap[clients_by_ids[k]]]

\* C11: clients() returns a point-in-time copy: whatever the caller does to
\* the dict it received, or to a session object in it, the registry and what
\* a later clients() shows stay as they were.  The steps of the caller are
\* those that leave every connection handler where it was.
C11_ClientsIsACopy ==
    [][(snapshot # None /\ pc' = pc) => RegistryView' = RegistryView]_vars

----------------------------------------------------------------------------
(* Properties of the backbone lifecycle *)

\* a backbone is configured
Configured == hub.broadcaster_uri # None

\* start() has ended, by returning or by raising
StartEnded == hub.start \in {"returned", "raised"}

\* C12: with a backbone configured, start() retries the connect after every
\* failure and returns only after an attempt succeeded; while the attempts
\* fail neither the keepalive timer nor the watcher is started; and once an
\* attempt succeeded start() completes, connected.
C12_StartRetriesUntilConnected ==
    Configured =>
      /\ hub.start = "connecting" =>
           /\ ~hub.keepalive_running
           /\ hub.watcher = "none"
           /\ hub.wait_for_broadcaster_closed = None
      /\ StartEnded => hub.wait_for_broadcaster_closed # None
      /\ hub.start # "raised"

\* C13: stop() is idempotent: after a start() that connected, stop() called
\* twice in a row raises no error in either call, issues the close of the
\* backbone exactly once and leaves the backbone closed, its reference
\* cleared.  (A stop() that raised before any close was issued was called
\* before start() had connected.)
C13_StopIdempotent ==
    (Configured /\ hub.start = "returned") =>
      /\ hub.closes > 0 => hub.stop # "raised"
      /\ hub.closes <= 1
      /\ hub.stop = "returned" =>
           /\ hub.broadcaster = None
           /\ hub.connection = "closed"
           /\ hub.closes = 1

\* C14: shutdown always completes: a failure of a step of stop() (the join of
\* the publish pool, the stop of the keepalive, the join of the cancelled
\* watcher, the close of the backbone) is not raised by stop() and does not
\* keep the other steps from running; a stop() that came to these steps
\* ends with the backbone closed and its reference cleared.
C14_ShutdownAlwaysCompletes ==
    /\ hub.items # {} => hub.stop # "raised"
    /\ hub.stop = "returned" =>
         /\ hub.broadcaster = None
         /\ hub.connection # "connected"

\* C15: drain before close: stop() has broadcaster.close() called only when
\* the join of the publish pool and the cancelled watcher are both done, so
\* every publish that was pending when stop() was called has finished by
\* then; a publish submitted later may still be pending.
C15_DrainBeforeClose ==
    hub.stop = "closing" =>
      /\ hub.join = "done"
      /\ hub.outstanding \cap hub.publish_pool = {}
      /\ hub.watcher \in {"done", "cancelled"}

\* close() is awaited after a publish that was pending at stop() has ended,
\* while a publish submitted since is pending
C15_Witness ==
    /\ hub.stop = "closing"
    /\ hub.outstanding # {}
    /\ hub.publish_pool # {}

----------------------------------------------------------------------------
(* Properties of publish() *)

\* C16: publish() is fire-and-forget: when it returns its publish is pending
\* in the pool and no failure has reached the caller; a publish that fails
\* had its publish() return before and takes no other publish out of the
\* pool; the pool holds the submitted publishes that have not ended.
C16_PublishFireAndForget ==
    [][/\ \A p \in hub'.submitted \ hub.submitted :
            /\ p \in hub'.publish_pool
            /\ p \notin hub'.finished
            /\ hub'.failed = hub.failed
       /\ \A p \in hub'.failed \ hub.failed :
            /\ p \in hub.submitted
            /\ hub'.publish_pool = hub.publish_pool \ {p}
       /\ hub'.publish_pool = hub'.submitted \ hub'.finished]_vars

\* a publish has failed while another is pending
C16_Witness ==
    /\ hub.failed # {}
    /\ hub.publish_pool # {}

----------------------------------------------------------------------------
(* Properties of the connection handler *)

\* how a handler moves: from the start to the message loop or, rejected,
\* straight to the close of the websocket; from the message loop to the
\* close; and from the close to its end
HandlerMoves ==
    {<<"idle", "loop">>, <<"idle", "closing">>, <<"loop", "closing">>,
     <<"closing", "idle">>}

\* C17: a connection without claims is rejected: no session is created or
\* shown, no refcount changes, no attribution is set, the message loop does
\* not run and the websocket is closed.  On every path the close of the
\* websocket is issued once and is the last thing the handler does: the
\* message loop runs only with claims and an attributed session, every
\* handler ends through the close, and nothing of the handler changes while
\* it closes.
C17_RejectedConnection ==
    [][\A t \in Conns :
         /\ (pc[t] = "idle" /\ pc'[t] = "closing") =>
              /\ heap' = heap
              /\ clients_by_ids' = clients_by_ids
              /\ ctx' = ctx
              /\ loc' = loc
              /\ subs' = subs
         /\ pc'[t] # pc[t] => <<pc[t], pc'[t]>> \in HandlerMoves
         /\ (pc[t] # "loop" /\ pc'[t] = "loop") =>
              /\ loc'[t].claims # None
              /\ ctx'[t] # None
         /\ pc[t] = "closing" =>
              /\ ctx[t] = None /\ ctx'[t] = None
              /\ loc[t] = NoLocals /\ loc'[t] = NoLocals
              /\ subs[t] = {} /\ subs'[t] = {}]_vars

\* the handler of the first connection closes its websocket and no session
\* is registered
C17_Witness ==
    /\ pc[1] = "closing"
    /\ DOMAIN clients_by_ids = {}
    /\ DOMAIN heap = {}
    /\ ctx[1] = None

----------------------------------------------------------------------------
(* Properties of wait_until_done() *)

\* every registered disconnect callback has been awaited
CallbacksAwaited == hub.disconnect_callbacks \subseteq hub.awaited

\* C18 as stated: wait-until-done resolves when the backbone reports its
\* closure or when all disconnect callbacks have been awaited, either alone
\* being enough: after the closure it does not wait for a callback, and with
\* every callback awaited it does not wait for the backbone.
C18_EitherAloneResolves ==
    /\ hub.connection = "closed" => hub.watcher # "await_callback"
    /\ CallbacksAwaited =>
         ~(hub.watcher = "await_broadcaster" /\ hub.connection = "connected")

\* C18, amended: with a backbone, wait-until-done resolves only after the
\* backbone has reported its closure and every registered disconnect callback
\* has then been awaited; no callback is awaited before the closure.
C18_ClosureThenCallbacks ==
    /\ hub.watcher = "done" => (hub.connection = "closed" /\ CallbacksAwaited)
    /\ hub.watcher = "await_callback" => hub.connection = "closed"
    /\ hub.awaited # {} => hub.connection = "closed"

\* the watcher is done after the closure and the callback
C18_Witness ==
    /\ hub.watcher = "done"
    /\ hub.disconnect_callbacks # {}
    /\ hub.connection = "closed"

----------------------------------------------------------------------------
(* Properties of the keepalive and of stop() before the connection *)

\* C19: the keepalive timer is active only if the interval is > 0: with a
\* backbone and an interval <= 0, start() reaches connected without error
\* and no keepalive timer runs, and stop() reaches closed without error; with
\* no backbone there is no keepalive timer whatever the interval.
C19_KeepaliveOnlyIfPositive ==
    /\ (hub.interval <= 0 \/ ~Configured) =>
         (~hub.keepalive_running /\ hub.broadcast_keepalive # "PeriodicPublisher")
    /\ (Configured /\ hub.interval <= 0) =>
         /\ hub.start # "raised"
         /\ hub.connection # "new" => hub.stop # "raised"

\* C20: with a backbone configured, stop() may be called in any state of the
\* lifecycle, before start() and while start() still retries the connect
\* (the watcher task is not created yet): it does not raise and it leaves the
\* backbone closed, its reference cleared.  Stated for an interval > 0.
C20_StopInAnyState ==
    (Configured /\ hub.interval > 0 /\ hub.start \in {"idle", "connecting"}) =>
      /\ hub.stop # "raised"
      /\ hub.stop = "returned" => hub.broadcaster = None

====
